---- MODULE Spec2Model ----
(***************************************************************************)
(* Password-based encryption helpers of NBJournal (Helpers/encryptor.py).  *)
(*                                                                         *)
(* Byte strings are sequences over 0 .. ByteMod-1.  The three library      *)
(* primitives are modelled by their algebraic structure:                   *)
(*   - PBKDF2-HMAC: the password bytes are first turned into the HMAC key  *)
(*     block (zero padded to the block size), after which the function is  *)
(*     collision free in (key block, salt);                                *)
(*   - HMAC(key, "password-check"): collision free in the key;             *)
(*   - AES-GCM: a keystream added to the plaintext (CTR mode) followed by  *)
(*     a 16 byte tag that is a polynomial (Horner) hash of the ciphertext  *)
(*     in a hash key that is a unit, masked by (key, nonce).               *)
(* os.urandom is a nondeterministic choice, passed to encrypt as the       *)
(* salt and nonce it drew.  An exception is an outcome record.             *)
(***************************************************************************)
EXTENDS Integers, Sequences, FiniteSets, TLC

\* ---------------------------------------------------------------- bounds
ByteMod == 3
MaxPlainLen == 1

\* ------------------------------------------------------ program constants
_SALT_SIZE == 16
_KEY_SIZE == 32
_NONCE_SIZE == 12
HMAC_SIZE == 32
TAG_SIZE == 16

\* A lone surrogate code point (U+D800): a Python str may hold it, UTF-8
\* cannot encode it.
SURROGATE == 55296

Byte == 0 .. (ByteMod - 1)

\* ------------------------------------------------------------ byte strings
Fill(n, b) == [i \in 1 .. n |-> b]

Min(a, b) == IF a < b THEN a ELSE b

\* Python slice s[a:b] (0-based, half open, clipped to the length).
Slice(s, a, b) == SubSeq(s, a + 1, Min(b, Len(s)))

SliceFrom(s, a) == SubSeq(s, a + 1, Len(s))

RECURSIVE SumSeq(_)
SumSeq(s) == IF s = << >> THEN 0 ELSE s[1] + SumSeq(Tail(s))

RECURSIVE StripZeros(_)
StripZeros(s) ==
    IF s = << >> THEN << >>
    ELSE IF s[Len(s)] # 0 THEN s
    ELSE StripZeros(SubSeq(s, 1, Len(s) - 1))

\* ---------------------------------------------------------------- outcomes
MalformedBlob == "Encrypted blob is too short or malformed."
NoCiphertext == "Encrypted blob has no ciphertext payload."
WrongPassword == "Incorrect password for encrypted data."
TamperedOrCorrupt == "Encrypted data is corrupted or has been tampered with."
EncodeFailure == "'utf-8' codec can't encode character: surrogates not allowed"

\* The process died during the call: the call does not come back.
Crashed == [kind |-> "crash", exc |-> "", msg |-> "", value |-> << >>]

Return(v) == [kind |-> "return", exc |-> "", msg |-> "", value |-> v]

Raise(e, m) == [kind |-> "raise", exc |-> e, msg |-> m, value |-> << >>]

\* ------------------------------------------------------ library primitives
\* password.encode("utf-8"): code points below 128 are one byte each, a
\* lone surrogate raises UnicodeEncodeError.
utf8_encode(password) ==
    IF \E i \in 1 .. Len(password) : password[i] = SURROGATE
    THEN Raise("UnicodeEncodeError", EncodeFailure)
    ELSE Return(password)

\* HMAC key block: a key shorter than the block is padded with zero bytes,
\* so trailing zero bytes of the key do not matter.
HmacKeyBlock(k) == StripZeros(k)

PadTo(s, n) == s \o Fill(n - Len(s), 0)

\* hashlib.pbkdf2_hmac("sha256", pw, salt, 200000, dklen=32) for a 16 byte
\* salt: collision free in (HmacKeyBlock(pw), salt).
pbkdf2_hmac(pw, salt) ==
    LET kb == PadTo(HmacKeyBlock(pw), _KEY_SIZE - _SALT_SIZE)
    IN  [i \in 1 .. _KEY_SIZE |->
            IF i <= _KEY_SIZE - _SALT_SIZE
            THEN (kb[i] + (IF i <= Len(salt) THEN salt[i] ELSE 0)) % ByteMod
            ELSE (salt[i - (_KEY_SIZE - _SALT_SIZE)] + 1) % ByteMod]

\* hmac.new(key, b"password-check", hashlib.sha256).digest()
password_check(key) ==
    [i \in 1 .. HMAC_SIZE |-> (key[HMAC_SIZE + 1 - i] + 1) % ByteMod]

\* hmac.compare_digest
compare_digest(a, b) == a = b

\* AES-CTR keystream byte for position i.
KeyStream(key, nonce, i) == (SumSeq(key) + SumSeq(nonce) + i) % ByteMod

\* GHASH key: always a unit of the byte ring.
HashKey(key) == IF SumSeq(key) % 2 = 0 THEN 1 ELSE ByteMod - 1

RECURSIVE GHash(_, _)
GHash(h, body) ==
    IF body = << >> THEN 0
    ELSE ((GHash(h, SubSeq(body, 1, Len(body) - 1)) + body[Len(body)]) * h) % ByteMod

GcmTag(key, nonce, body) ==
    LET mask == GHash(HashKey(key), body) + Len(body) + SumSeq(key) + SumSeq(nonce)
    IN  [j \in 1 .. TAG_SIZE |-> (mask + j) % ByteMod]

\* AESGCM(key).encrypt(nonce, plaintext, None): ciphertext || 16 byte tag.
aesgcm_encrypt(key, nonce, plaintext) ==
    LET body == [i \in 1 .. Len(plaintext) |->
                    (plaintext[i] + KeyStream(key, nonce, i)) % ByteMod]
    IN  body \o GcmTag(key, nonce, body)

\* AESGCM(key).decrypt(nonce, data, None): InvalidTag unless the tag verifies.
aesgcm_decrypt(key, nonce, data) ==
    IF Len(data) < TAG_SIZE THEN Raise("InvalidTag", "")
    ELSE LET body == SubSeq(data, 1, Len(data) - TAG_SIZE)
             tag == SubSeq(data, Len(data) - TAG_SIZE + 1, Len(data))
         IN  IF tag # GcmTag(key, nonce, body) THEN Raise("InvalidTag", "")
             ELSE Return([i \in 1 .. Len(body) |->
                            (body[i] + ByteMod - KeyStream(key, nonce, i)) % ByteMod])

\* ------------------------------------------------------------ EncryptedBlob
\* Variant: the minimum forgets the 16 byte tag.
MinBlobLen_NoTag == _SALT_SIZE + 32 + _NONCE_SIZE

MinBlobLen == _SALT_SIZE + 32 + _NONCE_SIZE + 16

\* Variant: the salt slice is one byte short.
from_bytes_off(blob) ==
    IF Len(blob) < MinBlobLen THEN Raise("ValueError", MalformedBlob)
    ELSE LET ciphertext == SliceFrom(blob, _SALT_SIZE + 32 + _NONCE_SIZE)
         IN  IF ciphertext = << >> THEN Raise("ValueError", NoCiphertext)
             ELSE Return([salt |-> Slice(blob, 0, _SALT_SIZE - 1),
                          password_hmac |-> Slice(blob, _SALT_SIZE, _SALT_SIZE + 32),
                          nonce |-> Slice(blob, _SALT_SIZE + 32, _SALT_SIZE + 32 + _NONCE_SIZE),
                          ciphertext |-> ciphertext])

from_bytes(blob) ==
    IF Len(blob) < MinBlobLen THEN Raise("ValueError", MalformedBlob)
    ELSE LET ciphertext == SliceFrom(blob, _SALT_SIZE + 32 + _NONCE_SIZE)
         IN  IF ciphertext = << >> THEN Raise("ValueError", NoCiphertext)
             ELSE Return([salt |-> Slice(blob, 0, _SALT_SIZE),
                          password_hmac |-> Slice(blob, _SALT_SIZE, _SALT_SIZE + 32),
                          nonce |-> Slice(blob, _SALT_SIZE + 32, _SALT_SIZE + 32 + _NONCE_SIZE),
                          ciphertext |-> ciphertext])

\* Variant: nonce and password HMAC written in the wrong order.
to_bytes_swapped(b) == b.salt \o b.nonce \o b.password_hmac \o b.ciphertext

\* Variant: the nonce is not written.
to_bytes_nononce(b) == b.salt \o b.password_hmac \o b.ciphertext

to_bytes(b) == b.salt \o b.password_hmac \o b.nonce \o b.ciphertext

\* -------------------------------------------------------------------- codec
_derive_key(password, salt) ==
    LET pw == utf8_encode(password)
    IN  IF pw.kind = "raise" THEN pw ELSE Return(pbkdf2_hmac(pw.value, salt))

\* Variant: the password HMAC is keyed with a key mixed with the nonce and
\* the plaintext.
encrypt_hmac_mixed(password, plaintext, salt, nonce) ==
    LET key == _derive_key(password, salt)
    IN  IF key.kind = "raise" THEN key
        ELSE Return(to_bytes([salt |-> salt,
                              password_hmac |->
                                  password_check([key.value EXCEPT ![1] =
                                      (@ + SumSeq(nonce) + Len(plaintext)) % ByteMod]),
                              nonce |-> nonce,
                              ciphertext |-> aesgcm_encrypt(key.value, nonce, plaintext)]))

\* salt and nonce are what os.urandom returned in this call.
encrypt(password, plaintext, salt, nonce) ==
    LET key == _derive_key(password, salt)
    IN  IF key.kind = "raise" THEN key
        ELSE Return(to_bytes([salt |-> salt,
                              password_hmac |-> password_check(key.value),
                              nonce |-> nonce,
                              ciphertext |-> aesgcm_encrypt(key.value, nonce, plaintext)]))

\* Variant: only the first half of the digest is compared.
is_password_correct_prefix(password, encrypted_blob) ==
    LET blob == from_bytes(encrypted_blob)
    IN  IF blob.kind = "raise" THEN Return(FALSE)
        ELSE LET key == _derive_key(password, blob.value.salt)
             IN  IF key.kind = "raise" THEN key
                 ELSE Return(compare_digest(Slice(password_check(key.value), 0, 16),
                                            Slice(blob.value.password_hmac, 0, 16)))

\* Variant: the gate also requires the payload to decrypt.
is_password_correct_decrypts(password, encrypted_blob) ==
    LET blob == from_bytes(encrypted_blob)
    IN  IF blob.kind = "raise" THEN Return(FALSE)
        ELSE LET key == _derive_key(password, blob.value.salt)
             IN  IF key.kind = "raise" THEN key
                 ELSE Return(/\ compare_digest(password_check(key.value),
                                               blob.value.password_hmac)
                             /\ aesgcm_decrypt(key.value, blob.value.nonce,
                                               blob.value.ciphertext).kind = "return")

is_password_correct(password, encrypted_blob) ==
    LET blob == from_bytes(encrypted_blob)
    IN  IF blob.kind = "raise" THEN Return(FALSE)
        ELSE LET key == _derive_key(password, blob.value.salt)
             IN  IF key.kind = "raise" THEN key
                 ELSE Return(compare_digest(password_check(key.value),
                                            blob.value.password_hmac))

\* Variant: an AEAD failure is swallowed and the raw payload returned.
decrypt_swallow(password, encrypted_blob) ==
    LET blob == from_bytes(encrypted_blob)
    IN  IF blob.kind = "raise"
        THEN [out |-> blob, trace |-> << "length_check" >>]
        ELSE LET key == _derive_key(password, blob.value.salt)
             IN  IF key.kind = "raise"
                 THEN [out |-> key, trace |-> << "length_check", "slice", "derive_key" >>]
                 ELSE IF ~ compare_digest(password_check(key.value), blob.value.password_hmac)
                 THEN [out |-> Raise("ValueError", WrongPassword),
                       trace |-> << "length_check", "slice", "derive_key", "compare_digest" >>]
                 ELSE LET pt == aesgcm_decrypt(key.value, blob.value.nonce, blob.value.ciphertext)
                      IN  [out |-> IF pt.kind = "raise"
                                   THEN Return(blob.value.ciphertext)
                                   ELSE pt,
                           trace |-> << "length_check", "slice", "derive_key",
                                        "compare_digest", "aead_decrypt" >>]

\* Variant: an AEAD failure is reported with the wrong-password message.
decrypt_samemsg(password, encrypted_blob) ==
    LET blob == from_bytes(encrypted_blob)
    IN  IF blob.kind = "raise"
        THEN [out |-> blob, trace |-> << "length_check" >>]
        ELSE LET key == _derive_key(password, blob.value.salt)
             IN  IF key.kind = "raise"
                 THEN [out |-> key, trace |-> << "length_check", "slice", "derive_key" >>]
                 ELSE IF ~ compare_digest(password_check(key.value), blob.value.password_hmac)
                 THEN [out |-> Raise("ValueError", WrongPassword),
                       trace |-> << "length_check", "slice", "derive_key", "compare_digest" >>]
                 ELSE LET pt == aesgcm_decrypt(key.value, blob.value.nonce, blob.value.ciphertext)
                      IN  [out |-> IF pt.kind = "raise"
                                   THEN Raise("ValueError", WrongPassword)
                                   ELSE pt,
                           trace |-> << "length_check", "slice", "derive_key",
                                        "compare_digest", "aead_decrypt" >>]

\* The outcome of decrypt together with the steps the call executed, in order.
decrypt(password, encrypted_blob) ==
    LET blob == from_bytes(encrypted_blob)
    IN  IF blob.kind = "raise"
        THEN [out |-> blob,
              trace |-> IF blob.msg = MalformedBlob THEN << "length_check" >>
                        ELSE << "length_check", "slice" >>]
        ELSE LET key == _derive_key(password, blob.value.salt)
             IN  IF key.kind = "raise"
                 THEN [out |-> key, trace |-> << "length_check", "slice", "derive_key" >>]
                 ELSE IF ~ compare_digest(password_check(key.value), blob.value.password_hmac)
                 THEN [out |-> Raise("ValueError", WrongPassword),
                       trace |-> << "length_check", "slice", "derive_key", "compare_digest" >>]
                 ELSE LET pt == aesgcm_decrypt(key.value, blob.value.nonce, blob.value.ciphertext)
                      IN  [out |-> IF pt.kind = "raise"
                                   THEN Raise("ValueError", TamperedOrCorrupt)
                                   ELSE pt,
                           trace |-> << "length_check", "slice", "derive_key",
                                        "compare_digest", "aead_decrypt" >>]

\* ------------------------------------------------------------------ base64
\* A base64 text is a sequence of characters: 0 .. 63 are the characters of
\* the standard alphabet by index, then '=', an ASCII character outside the
\* alphabet, and a character outside ASCII.
B64_PAD == 64
OTHER_ASCII == 65
NON_ASCII == 66

PaddingError == "Incorrect padding"
AsciiFailure == "'ascii' codec can't encode character: ordinal not in range(128)"

\* base64.b64encode: three bytes give four characters, the tail is padded.
b64encode(b) ==
    LET n == Len(b)
        at(i) == IF i <= n THEN b[i] ELSE 0
    IN  [p \in 1 .. 4 * ((n + 2) \div 3) |->
            LET q == (p - 1) \div 4
                r == (p - 1) % 4
                b1 == at(3 * q + 1)
                b2 == at(3 * q + 2)
                b3 == at(3 * q + 3)
            IN  IF r = 0 THEN b1 \div 4
                ELSE IF r = 1 THEN (b1 % 4) * 16 + b2 \div 16
                ELSE IF r = 2
                THEN IF 3 * q + 2 > n THEN B64_PAD ELSE (b2 % 16) * 4 + b3 \div 64
                ELSE IF 3 * q + 3 > n THEN B64_PAD ELSE b3 % 64]

\* binascii.a2b_base64 (not strict).  Characters outside the alphabet are
\* skipped; a '=' met when the current quad holds two or three characters
\* counts as a pad, and the pad that completes the quad ends the data; other
\* '=' are skipped; an incomplete quad at the end of the input is an error.
\* quad_pos before position i:
QuadPos(t, i) == Cardinality({ j \in 1 .. (i - 1) : t[j] < B64_PAD }) % 4

\* pads counted at position i: the '=' since the last alphabet character.
PadsAt(t, i) ==
    Cardinality({ j \in 1 .. i :
        /\ t[j] = B64_PAD
        /\ \A k \in j .. i : ~ (t[k] < B64_PAD) })

\* positions of a '=' that ends the data.
PadStops(t) ==
    { i \in 1 .. Len(t) :
        /\ t[i] = B64_PAD
        /\ QuadPos(t, i) >= 2
        /\ QuadPos(t, i) + PadsAt(t, i) >= 4 }

b64decode(t) ==
    LET stops == PadStops(t)
        stop == IF stops = { } THEN Len(t) + 1
                ELSE CHOOSE i \in stops : \A j \in stops : i <= j
        data == SelectSeq(SubSeq(t, 1, stop - 1), LAMBDA c : c < B64_PAD)
        k == Len(data)
        nbytes == 3 * (k \div 4) + (IF k % 4 = 0 THEN 0 ELSE (k % 4) - 1)
    IN  IF stops = { } /\ k % 4 # 0
        THEN Raise("binascii.Error", PaddingError)
        ELSE Return([m \in 1 .. nbytes |->
                LET q == (m - 1) \div 3
                    r == (m - 1) % 3
                IN  IF r = 0 THEN data[4 * q + 1] * 4 + data[4 * q + 2] \div 16
                    ELSE IF r = 1
                    THEN (data[4 * q + 2] % 16) * 16 + data[4 * q + 3] \div 4
                    ELSE (data[4 * q + 3] % 4) * 64 + data[4 * q + 4]])

\* data.encode("ascii")
ascii_encode(data) ==
    IF \E i \in 1 .. Len(data) : data[i] = NON_ASCII
    THEN Raise("UnicodeEncodeError", AsciiFailure)
    ELSE Return(data)

\* Variant: the padding is stripped from the text.
encrypt_to_base64_nopad(password, plaintext, salt, nonce) ==
    LET r == encrypt(password, plaintext, salt, nonce)
    IN  IF r.kind = "raise" THEN r
        ELSE Return(SelectSeq(b64encode(r.value), LAMBDA c : c # B64_PAD))

encrypt_to_base64(password, plaintext, salt, nonce) ==
    LET r == encrypt(password, plaintext, salt, nonce)
    IN  IF r.kind = "raise" THEN r ELSE Return(b64encode(r.value))

decrypt_from_base64(password, data) ==
    LET a == ascii_encode(data)
    IN  IF a.kind = "raise" THEN a
        ELSE LET b == b64decode(a.value)
             IN  IF b.kind = "raise" THEN b ELSE decrypt(password, b.value).out

\* -------------------------------------------------- DataClasses/log.py: Log
\* A text is a sequence of characters.  In a sensitive field and in the
\* serialized record two characters have a syntactic role, the double quote
\* and the backslash; every other character is an ordinary letter.
QUOTE == 0
BACKSLASH == 1
LETTER == 2

\* Optional[str]: None, or a string (the empty string included).
None == [is_none |-> TRUE, text |-> << >>]

Str(t) == [is_none |-> FALSE, text |-> t]

\* "This log has been encrypted. Decrypt this log to view its contents"
placeholder == << LETTER, LETTER, LETTER >>

NotEncrypted == "Log is not encrypted."
IncorrectOrCorrupted == "Incorrect password or corrupted encrypted log data."
DecodeFailure == "Failed to decode decrypted log payload."
NoGetAttribute == "object has no attribute 'get'"
OpenFailure == "open(file_path, 'w') failed"
WriteFailure == "write to the log file failed"

\* Variant: subclasses of ValueError are not caught.
IsValueError_exact(exc) == exc = "ValueError"

\* Exception classes that `except ValueError` catches.
IsValueError(exc) ==
    exc \in { "ValueError", "UnicodeEncodeError", "UnicodeDecodeError",
              "binascii.Error", "JSONDecodeError" }

\* json.dumps of a str with ensure_ascii=False: the quote and the backslash
\* are escaped with a backslash, the text is put between quotes.
RECURSIVE JsonEscape(_)
JsonEscape(s) ==
    IF s = << >> THEN << >>
    ELSE (IF s[1] \in { QUOTE, BACKSLASH } THEN << BACKSLASH, s[1] >> ELSE << s[1] >>)
            \o JsonEscape(Tail(s))

JsonString(s) == << QUOTE >> \o JsonEscape(s) \o << QUOTE >>

\* Variant: the two values are written in the other order.
json_dumps_swapped(payload) ==
    JsonString(payload.body) \o JsonString(payload.description)

\* json.dumps({"description": ..., "body": ..., "attachments": {}}): the
\* record is written as the value of "description" followed by the value
\* of "body" (braces, keys and the empty "attachments" are fixed text).
json_dumps(payload) ==
    JsonString(payload.description) \o JsonString(payload.body)

\* Reads a string literal whose opening quote is before position i.
RECURSIVE ScanString(_, _, _)
ScanString(t, i, acc) ==
    IF i > Len(t) THEN [ok |-> FALSE, value |-> acc, next |-> i]
    ELSE IF t[i] = QUOTE THEN [ok |-> TRUE, value |-> acc, next |-> i + 1]
    ELSE IF t[i] = BACKSLASH
    THEN IF i + 1 <= Len(t) /\ t[i + 1] \in { QUOTE, BACKSLASH }
         THEN ScanString(t, i + 2, Append(acc, t[i + 1]))
         ELSE [ok |-> FALSE, value |-> acc, next |-> i]
    ELSE ScanString(t, i + 1, Append(acc, t[i]))

\* json.loads: a text of letters only is a JSON value that is not a mapping
\* (a number); one string literal is a mapping that has "description" only;
\* two are the full record; anything else is not JSON.
json_loads(t) ==
    LET bad == Raise("JSONDecodeError", "")
        first == ScanString(t, 2, << >>)
        second == ScanString(t, first.next + 1, << >>)
    IN  IF t = << >> THEN bad
        ELSE IF \A i \in 1 .. Len(t) : t[i] \notin { QUOTE, BACKSLASH }
        THEN Return([kind |-> "number", keys |-> { }, description |-> << >>, body |-> << >>])
        ELSE IF t[1] # QUOTE \/ ~ first.ok THEN bad
        ELSE IF first.next > Len(t)
        THEN Return([kind |-> "dict", keys |-> { "description" },
                     description |-> first.value, body |-> << >>])
        ELSE IF t[first.next] # QUOTE \/ ~ second.ok \/ second.next <= Len(t) THEN bad
        ELSE Return([kind |-> "dict", keys |-> { "description", "body" },
                     description |-> first.value, body |-> second.value])

\* payload.get(key, "")
dict_get(payload, key) ==
    IF key \in payload.keys
    THEN (IF key = "description" THEN payload.description ELSE payload.body)
    ELSE << >>

\* plaintext.decode("utf-8"): bytes below 128 are one character each.
utf8_decode(b) ==
    IF \E i \in 1 .. Len(b) : b[i] >= 128
    THEN Raise("UnicodeDecodeError", "")
    ELSE Return(b)

\* Log(name, description, body, path): the other fields take their
\* defaults (no tags, the construction time, no revision, format version 1).
NewLog(name, description, body, path) ==
    [name |-> name, description |-> description, body |-> body, path |-> path,
     tags |-> << >>, created_at |-> 0, revised_at |-> 0,
     revision_history |-> << >>, log_format_version |-> 1,
     encrypted_payload |-> None]

NoLog == NewLog(<< >>, << >>, << >>, << >>)

NoFile == [state |-> "absent", content |-> NoLog]

\* Log.is_encrypted: bool(self.encrypted_payload)
is_encrypted(self) ==
    ~ self.encrypted_payload.is_none /\ self.encrypted_payload.text # << >>

\* Log.save.  store.logs: the entity is in the global list; store.file: the
\* file of the entity.  io is what the file system does in this call: the
\* file is written, open raises, the write stops part way with an error, or
\* the process dies part way through the write (the file was truncated by
\* open(file_path, "w") and json.dump had written a part of the record).
save(self, store, io) ==
    LET listed == [store EXCEPT !.logs = TRUE]
    IN  IF io = "open_fails"
        THEN [store |-> listed, out |-> Raise("OSError", OpenFailure)]
        ELSE IF io = "crash"
        THEN [store |-> [listed EXCEPT !.file = [state |-> "partial", content |-> self]],
              out |-> Crashed]
        ELSE IF io = "write_fails"
        THEN [store |-> [listed EXCEPT !.file = [state |-> "partial", content |-> self]],
              out |-> Raise("OSError", WriteFailure)]
        ELSE [store |-> [listed EXCEPT !.file = [state |-> "complete", content |-> self]],
              out |-> Return(None)]

CallResult(self, store, out, steps) ==
    [log |-> self, store |-> store, out |-> out, steps |-> steps]

\* Variant: the guard on an already encrypted entity is missing.
encrypt_with_password_noguard(self, store, password, salt, nonce, io) ==
    LET plaintext == utf8_encode(json_dumps([description |-> self.description,
                                             body |-> self.body]))
        encrypted_b64 == encrypt_to_base64(password, plaintext.value, salt, nonce)
        mutated == [self EXCEPT !.encrypted_payload = Str(encrypted_b64.value),
                                !.description = placeholder,
                                !.body = placeholder]
        saved == save(mutated, store, io)
    IN  IF plaintext.kind = "raise"
        THEN CallResult(self, store, plaintext, << "json_dumps" >>)
        ELSE IF encrypted_b64.kind = "raise"
        THEN CallResult(self, store, encrypted_b64, << "json_dumps", "encrypt_to_base64" >>)
        ELSE CallResult(mutated, saved.store, saved.out,
                        << "json_dumps", "encrypt_to_base64", "assign", "save" >>)

\* Variant: save is called before the fields are replaced.
encrypt_with_password_saveearly(self, store, password, salt, nonce, io) ==
    LET plaintext == utf8_encode(json_dumps([description |-> self.description,
                                             body |-> self.body]))
        encrypted_b64 == encrypt_to_base64(password, plaintext.value, salt, nonce)
        halfway == [self EXCEPT !.encrypted_payload = Str(encrypted_b64.value)]
        mutated == [self EXCEPT !.encrypted_payload = Str(encrypted_b64.value),
                                !.description = placeholder,
                                !.body = placeholder]
        saved == save(halfway, store, io)
    IN  IF is_encrypted(self) THEN CallResult(self, store, Return(None), << >>)
        ELSE IF plaintext.kind = "raise"
        THEN CallResult(self, store, plaintext, << "json_dumps" >>)
        ELSE IF encrypted_b64.kind = "raise"
        THEN CallResult(self, store, encrypted_b64, << "json_dumps", "encrypt_to_base64" >>)
        ELSE CallResult(mutated, saved.store, saved.out,
                        << "json_dumps", "encrypt_to_base64", "assign", "save" >>)

\* Variant: the name is replaced by the placeholder too.
encrypt_with_password_namehidden(self, store, password, salt, nonce, io) ==
    LET plaintext == utf8_encode(json_dumps([description |-> self.description,
                                             body |-> self.body]))
        encrypted_b64 == encrypt_to_base64(password, plaintext.value, salt, nonce)
        mutated == [self EXCEPT !.encrypted_payload = Str(encrypted_b64.value),
                                !.name = placeholder,
                                !.description = placeholder,
                                !.body = placeholder]
        saved == save(mutated, store, io)
    IN  IF is_encrypted(self) THEN CallResult(self, store, Return(None), << >>)
        ELSE IF plaintext.kind = "raise"
        THEN CallResult(self, store, plaintext, << "json_dumps" >>)
        ELSE IF encrypted_b64.kind = "raise"
        THEN CallResult(self, store, encrypted_b64, << "json_dumps", "encrypt_to_base64" >>)
        ELSE CallResult(mutated, saved.store, saved.out,
                        << "json_dumps", "encrypt_to_base64", "assign", "save" >>)

\* Variant: body keeps its text.
encrypt_with_password_bodykept(self, store, password, salt, nonce, io) ==
    LET plaintext == utf8_encode(json_dumps([description |-> self.description,
                                             body |-> self.body]))
        encrypted_b64 == encrypt_to_base64(password, plaintext.value, salt, nonce)
        mutated == [self EXCEPT !.encrypted_payload = Str(encrypted_b64.value),
                                !.description = placeholder]
        saved == save(mutated, store, io)
    IN  IF is_encrypted(self) THEN CallResult(self, store, Return(None), << >>)
        ELSE IF plaintext.kind = "raise"
        THEN CallResult(self, store, plaintext, << "json_dumps" >>)
        ELSE IF encrypted_b64.kind = "raise"
        THEN CallResult(self, store, encrypted_b64, << "json_dumps", "encrypt_to_base64" >>)
        ELSE CallResult(mutated, saved.store, saved.out,
                        << "json_dumps", "encrypt_to_base64", "assign", "save" >>)

\* Log.encrypt_with_password; salt and nonce are what os.urandom gives.
encrypt_with_password(self, store, password, salt, nonce, io) ==
    LET plaintext == utf8_encode(json_dumps([description |-> self.description,
                                             body |-> self.body]))
        encrypted_b64 == encrypt_to_base64(password, plaintext.value, salt, nonce)
        mutated == [self EXCEPT !.encrypted_payload = Str(encrypted_b64.value),
                                !.description = placeholder,
                                !.body = placeholder]
        saved == save(mutated, store, io)
    IN  IF is_encrypted(self) THEN CallResult(self, store, Return(None), << >>)
        ELSE IF plaintext.kind = "raise"
        THEN CallResult(self, store, plaintext, << "json_dumps" >>)
        ELSE IF encrypted_b64.kind = "raise"
        THEN CallResult(self, store, encrypted_b64, << "json_dumps", "encrypt_to_base64" >>)
        ELSE CallResult(mutated, saved.store, saved.out,
                        << "json_dumps", "encrypt_to_base64", "assign", "save" >>)

\* Variant: a payload text with a character outside the base64 alphabet is
\* refused (strict decoding).
can_decrypt_with_password_strict(self, password) ==
    LET blob == ascii_encode(self.encrypted_payload.text)
        raw == b64decode(blob.value)
        r == is_password_correct(password, raw.value)
    IN  IF ~ is_encrypted(self) THEN Return(FALSE)
        ELSE IF blob.kind = "raise" THEN Return(FALSE)
        ELSE IF \E i \in 1 .. Len(blob.value) : blob.value[i] = OTHER_ASCII
        THEN Return(FALSE)
        ELSE IF raw.kind = "raise" THEN Return(FALSE)
        ELSE IF r.kind = "raise" THEN Return(FALSE)
        ELSE r

\* Variant: an exception of is_password_correct is not caught.
can_decrypt_with_password_uncaught(self, password) ==
    LET blob == ascii_encode(self.encrypted_payload.text)
        raw == b64decode(blob.value)
        r == is_password_correct(password, raw.value)
    IN  IF ~ is_encrypted(self) THEN Return(FALSE)
        ELSE IF blob.kind = "raise" THEN Return(FALSE)
        ELSE IF raw.kind = "raise" THEN Return(FALSE)
        ELSE r

\* Log.can_decrypt_with_password
can_decrypt_with_password(self, password) ==
    LET blob == ascii_encode(self.encrypted_payload.text)
        raw == b64decode(blob.value)
        r == is_password_correct(password, raw.value)
    IN  IF ~ is_encrypted(self) THEN Return(FALSE)
        ELSE IF blob.kind = "raise" THEN Return(FALSE)
        ELSE IF raw.kind = "raise" THEN Return(FALSE)
        ELSE IF r.kind = "raise" THEN Return(FALSE)
        ELSE r

\* Variant: the payload is cleared before the record is decoded.
decrypt_with_password_early(self, store, password, io) ==
    LET plaintext == decrypt_from_base64(password, self.encrypted_payload.text)
        text == utf8_decode(plaintext.value)
        payload == json_loads(text.value)
        cleared == [self EXCEPT !.encrypted_payload = None]
        mutated == [self EXCEPT !.description = dict_get(payload.value, "description"),
                                !.body = dict_get(payload.value, "body"),
                                !.encrypted_payload = None]
        saved == save(mutated, store, io)
    IN  IF ~ is_encrypted(self)
        THEN CallResult(self, store, Raise("ValueError", NotEncrypted), << >>)
        ELSE IF plaintext.kind = "raise"
        THEN CallResult(self, store,
                        IF IsValueError(plaintext.exc)
                        THEN Raise("ValueError", IncorrectOrCorrupted) ELSE plaintext,
                        << "decrypt_from_base64" >>)
        ELSE IF text.kind = "raise" \/ payload.kind = "raise"
        THEN CallResult(cleared, store, Raise("ValueError", DecodeFailure),
                        << "decrypt_from_base64", "json_loads" >>)
        ELSE IF payload.value.kind # "dict"
        THEN CallResult(cleared, store, Raise("AttributeError", NoGetAttribute),
                        << "decrypt_from_base64", "json_loads" >>)
        ELSE CallResult(mutated, saved.store, saved.out,
                        << "decrypt_from_base64", "json_loads", "assign", "save" >>)

\* Log.decrypt_with_password
decrypt_with_password(self, store, password, io) ==
    LET plaintext == decrypt_from_base64(password, self.encrypted_payload.text)
        text == utf8_decode(plaintext.value)
        payload == json_loads(text.value)
        mutated == [self EXCEPT !.description = dict_get(payload.value, "description"),
                                !.body = dict_get(payload.value, "body"),
                                !.encrypted_payload = None]
        saved == save(mutated, store, io)
    IN  IF ~ is_encrypted(self)
        THEN CallResult(self, store, Raise("ValueError", NotEncrypted), << >>)
        ELSE IF plaintext.kind = "raise"
        THEN CallResult(self, store,
                        IF IsValueError(plaintext.exc)
                        THEN Raise("ValueError", IncorrectOrCorrupted) ELSE plaintext,
                        << "decrypt_from_base64" >>)
        ELSE IF text.kind = "raise" \/ payload.kind = "raise"
        THEN CallResult(self, store, Raise("ValueError", DecodeFailure),
                        << "decrypt_from_base64", "json_loads" >>)
        ELSE IF payload.value.kind # "dict"
        THEN CallResult(self, store, Raise("AttributeError", NoGetAttribute),
                        << "decrypt_from_base64", "json_loads" >>)
        ELSE CallResult(mutated, saved.store, saved.out,
                        << "decrypt_from_base64", "json_loads", "assign", "save" >>)

\* ------------------------------------- UI: HomeScreen and LogEditorWindow
\* The state of the user interface is one record h:
\*   objs               the Log objects of the process, by identity: the
\*                      entity, whether it is in `logs`, and its file
\*   current_log        HomeScreen.current_log (0: None, else a position in objs)
\*   active_log_editor  UI.LogEditor.state.active_log_editor is not None
\*   editor             the LogEditorWindow: shown, its log, its widgets, _dirty
\*   now                the clock datetime.utcnow() reads
\*   last               the last handler run, what the dialog gave it, and
\*                      the calls it made on a Log, in order
NoDialog == [ok |-> FALSE, text |-> << >>]

NoEditor == [shown |-> FALSE, log |-> 0, title |-> << >>,
             description |-> << >>, body |-> << >>, dirty |-> FALSE]

Called(call, i, password, out) ==
    [call |-> call, log |-> i, password |-> password, out |-> out]

Handled(h, op, dialog, trace) ==
    [h EXCEPT !.last = [op |-> op, dialog |-> dialog, trace |-> trace]]

\* The entities the logs viewer lists: the global list `logs`.
Listed(h) == { i \in 1 .. Len(h.objs) : h.objs[i].store.logs }

\* LogsViewer.reload_logs: the list is cleared and filled again, and the
\* first row becomes the selection.  row0 is the entity the search text and
\* the sort order put there (0: the filter leaves no row).
reload_logs(h, row0) ==
    [h EXCEPT !.current_log = IF row0 \in Listed(h) THEN row0 ELSE 0]

\* HomeScreen._on_log_saved
_on_log_saved(h, row0) == reload_logs(h, row0)

\* LogsViewer._on_list_selection_changed, HomeScreen._on_selected_log_changed
_on_selected_log_changed(h, i) == [h EXCEPT !.current_log = i]

\* LogEditorWindow(log, parent=self) and show(): the window registers
\* itself and fills its widgets from the entity.
LogEditorWindow(h, i) ==
    [h EXCEPT !.active_log_editor = TRUE,
              !.editor = [shown |-> TRUE, log |-> i,
                          title |-> h.objs[i].log.name,
                          description |-> h.objs[i].log.description,
                          body |-> h.objs[i].log.body,
                          dirty |-> FALSE]]

\* HomeScreen._new_log (no AI task is running); path is the unused file
\* name the loop over uuid4 ends with.
_new_log(h, path) ==
    LET new_log == [log |-> NewLog(<< >>, << >>, << >>, path),
                    store |-> [logs |-> FALSE, file |-> NoFile]]
        made == [h EXCEPT !.objs = Append(@, new_log)]
    IN  IF h.active_log_editor THEN Handled(h, "_new_log", NoDialog, << >>)
        ELSE Handled(LogEditorWindow(made, Len(made.objs)), "_new_log", NoDialog, << >>)

\* HomeScreen._edit_log (no AI task is running)
_edit_log(h) ==
    IF h.active_log_editor THEN Handled(h, "_edit_log", NoDialog, << >>)
    ELSE IF h.current_log = 0 THEN Handled(h, "_edit_log", NoDialog, << >>)
    ELSE IF is_encrypted(h.objs[h.current_log].log)
    THEN Handled(h, "_edit_log", NoDialog, << >>)
    ELSE Handled(LogEditorWindow(h, h.current_log), "_edit_log", NoDialog, << >>)

\* textChanged of a widget: the user has typed, _mark_dirty runs.
_mark_dirty(h, t) ==
    [h EXCEPT !.editor.title = t.title,
              !.editor.description = t.description,
              !.editor.body = t.body,
              !.editor.dirty = TRUE]

\* Log.add_revision
add_revision(self, now) ==
    [self EXCEPT !.revision_history = Append(@, now), !.revised_at = now]

\* LogEditorWindow._update_log_from_widgets
_update_log_from_widgets(h, now) ==
    LET i == h.editor.log
        edited == [h.objs[i].log EXCEPT !.name = h.editor.title,
                                        !.description = h.editor.description,
                                        !.body = h.editor.body]
    IN  [h EXCEPT !.objs[i].log = add_revision(edited, now),
                  !.now = now,
                  !.editor.dirty = FALSE]

\* title.strip() == "": the texts here hold no white space.
IsBlank(title) == title = << >>

\* LogEditorWindow.save_log
save_log(h, now, io, row0) ==
    LET i == h.editor.log
        updated == _update_log_from_widgets(h, now)
        saved == save(updated.objs[i].log, updated.objs[i].store, io)
        after == [updated EXCEPT !.objs[i].store = saved.store]
    IN  IF IsBlank(h.editor.title) THEN h
        ELSE IF saved.out.kind = "raise" THEN after
        ELSE _on_log_saved(after, row0)

\* LogEditorWindow._auto_save_if_dirty (the timer has fired)
_auto_save_if_dirty(h, now, io, row0) ==
    LET i == h.editor.log
        updated == _update_log_from_widgets(h, now)
        saved == save(updated.objs[i].log, updated.objs[i].store, io)
        after == [updated EXCEPT !.objs[i].store = saved.store]
    IN  IF ~ h.editor.dirty THEN h
        ELSE IF IsBlank(h.editor.title) THEN h
        ELSE IF saved.out.kind = "raise" THEN after
        ELSE _on_log_saved(after, row0)

\* LogEditorWindow.closeEvent; answer is the button of the prompt.
closeEvent(h, answer, now, io, row0) ==
    LET saved == save_log(h, now, io, row0)
        closed(x) == [x EXCEPT !.active_log_editor = FALSE, !.editor = NoEditor]
    IN  IF h.editor.dirty /\ answer = "Cancel" THEN h
        ELSE IF h.editor.dirty /\ answer = "Yes"
        THEN (IF saved.editor.dirty THEN saved ELSE closed(saved))
        ELSE closed(h)

\* The try block of the two handlers, from the return of the call on
\* current_log: r is what the call did to the entity and its file, and how
\* it ended.  An exception is reported; otherwise the list is reloaded.
AfterCall(h, op, dialog, i, trace, r, row0) ==
    LET after == [h EXCEPT !.objs[i] = [log |-> r.log, store |-> r.store]]
    IN  IF r.out.kind = "raise"
        THEN Handled(after, op, dialog, trace)
        ELSE Handled(reload_logs(after, row0), op, dialog, trace)

EncryptCalled(i, password, r) ==
    << Called("encrypt_with_password", i, password, r.out) >>

\* Variant: the check for an open Log Editor is missing.
_encrypt_selected_log_editoropen(h, dialog, confirm, d, io, row0) ==
    LET i == h.current_log
        self == h.objs[i]
        password == dialog.text
    IN  IF i = 0 THEN Handled(h, "_encrypt_selected_log", NoDialog, << >>)
        ELSE IF is_encrypted(self.log)
        THEN Handled(h, "_encrypt_selected_log", NoDialog, << >>)
        ELSE IF ~ dialog.ok \/ password = << >>
        THEN Handled(h, "_encrypt_selected_log", dialog, << >>)
        ELSE IF ~ confirm.ok \/ password # confirm.text
        THEN Handled(h, "_encrypt_selected_log", dialog, << >>)
        ELSE LET r == encrypt_with_password(self.log, self.store, password,
                                            d.salt, d.nonce, io)
             IN  AfterCall(h, "_encrypt_selected_log", dialog, i,
                           EncryptCalled(i, password, r), r, row0)

\* HomeScreen._encrypt_selected_log; dialog and confirm are what the two
\* QInputDialog.getText calls give.
_encrypt_selected_log(h, dialog, confirm, d, io, row0) ==
    LET i == h.current_log
        self == h.objs[i]
        password == dialog.text
    IN  IF h.active_log_editor
        THEN Handled(h, "_encrypt_selected_log", NoDialog, << >>)
        ELSE IF i = 0 THEN Handled(h, "_encrypt_selected_log", NoDialog, << >>)
        ELSE IF is_encrypted(self.log)
        THEN Handled(h, "_encrypt_selected_log", NoDialog, << >>)
        ELSE IF ~ dialog.ok \/ password = << >>
        THEN Handled(h, "_encrypt_selected_log", dialog, << >>)
        ELSE IF ~ confirm.ok \/ password # confirm.text
        THEN Handled(h, "_encrypt_selected_log", dialog, << >>)
        ELSE LET r == encrypt_with_password(self.log, self.store, password,
                                            d.salt, d.nonce, io)
             IN  AfterCall(h, "_encrypt_selected_log", dialog, i,
                           EncryptCalled(i, password, r), r, row0)

\* The calls a handler has made on the log when decrypt_with_password has
\* come back: the ones before it, then this one.
DecryptCalledAfter(before, i, password, r) ==
    Append(before, Called("decrypt_with_password", i, password, r.out))

\* HomeScreen._decrypt_selected_log from the answer of the gate on.
GateAnswered(h, dialog, i, gate, io, row0) ==
    LET self == h.objs[i]
        password == dialog.text
        gated == << Called("can_decrypt_with_password", i, password, gate) >>
    IN  IF gate # Return(TRUE)
        THEN Handled(h, "_decrypt_selected_log", dialog, gated)
        ELSE LET r == decrypt_with_password(self.log, self.store, password, io)
             IN  AfterCall(h, "_decrypt_selected_log", dialog, i,
                           DecryptCalledAfter(gated, i, password, r), r, row0)

\* Variant: decrypt_with_password is called without asking the gate.
_decrypt_selected_log_ungated(h, dialog, io, row0) ==
    LET i == h.current_log
        self == h.objs[i]
        password == dialog.text
    IN  IF h.active_log_editor
        THEN Handled(h, "_decrypt_selected_log", NoDialog, << >>)
        ELSE IF i = 0 THEN Handled(h, "_decrypt_selected_log", NoDialog, << >>)
        ELSE IF ~ is_encrypted(self.log)
        THEN Handled(h, "_decrypt_selected_log", NoDialog, << >>)
        ELSE IF ~ dialog.ok \/ password = << >>
        THEN Handled(h, "_decrypt_selected_log", dialog, << >>)
        ELSE LET r == decrypt_with_password(self.log, self.store, password, io)
             IN  AfterCall(h, "_decrypt_selected_log", dialog, i,
                           DecryptCalledAfter(<< >>, i, password, r), r, row0)

\* HomeScreen._decrypt_selected_log; dialog is what QInputDialog.getText gives.
_decrypt_selected_log(h, dialog, io, row0) ==
    LET i == h.current_log
        self == h.objs[i]
        password == dialog.text
    IN  IF h.active_log_editor
        THEN Handled(h, "_decrypt_selected_log", NoDialog, << >>)
        ELSE IF i = 0 THEN Handled(h, "_decrypt_selected_log", NoDialog, << >>)
        ELSE IF ~ is_encrypted(self.log)
        THEN Handled(h, "_decrypt_selected_log", NoDialog, << >>)
        ELSE IF ~ dialog.ok \/ password = << >>
        THEN Handled(h, "_decrypt_selected_log", dialog, << >>)
        ELSE GateAnswered(h, dialog, i, can_decrypt_with_password(self.log, password),
                          io, row0)

\* ------------------------------------------------------------------ inputs
\* Passwords as sequences of code points: "", "\x01", "\x01\x00" and a
\* string holding a lone surrogate.
Passwords == { << >>, << 1 >>, << 1, 0 >>, << SURROGATE >> }

\* Plaintexts over the two extreme byte values.
PlainByte == { 0, ByteMod - 1 }

Plaintexts == UNION { [1 .. n -> PlainByte] : n \in 0 .. MaxPlainLen }

Salts == { Fill(_SALT_SIZE, 0), << 1 >> \o Fill(_SALT_SIZE - 1, 0) }

Nonces == { Fill(_NONCE_SIZE, 0), Fill(_NONCE_SIZE - 1, 0) \o << 1 >> }

\* The sensitive fields of the entity at construction: both empty, texts
\* that need escaping, and a description holding a lone surrogate.
FieldPairs ==
    { [description |-> << >>, body |-> << >>],
      [description |-> << QUOTE >>, body |-> << BACKSLASH, LETTER >>],
      [description |-> << SURROGATE >>, body |-> << LETTER >>] }

\* The name and the file name of the entity.
LogName == << LETTER >>

LogPath == << LETTER, LETTER >>

\* What os.urandom gives to one encrypt call.
Draws ==
    { [salt |-> Fill(_SALT_SIZE, 0), nonce |-> Fill(_NONCE_SIZE, 0)],
      [salt |-> << 1 >> \o Fill(_SALT_SIZE - 1, 0),
       nonce |-> Fill(_NONCE_SIZE - 1, 0) \o << 1 >>] }

\* What the file system does in one save.
IoOutcomes == { "ok", "open_fails", "write_fails", "crash" }

\* Ways the stored payload text is found changed.
Damages ==
    { "password_hmac", "ciphertext", "short_blob", "cut_text", "non_ascii",
      "newline", "empty", "number", "not_json", "no_body" }

\* Log objects that exist in one run, and calls of add_revision.
MaxLogs == 2

MaxRevisions == 1

\* What a password dialog gives: the button and the text.
HomePasswords == { << >>, << 1 >>, << 2 >> }

Dialogs ==
    { [ok |-> FALSE, text |-> << >>] } \cup { [ok |-> TRUE, text |-> P] : P \in HomePasswords }

\* The button of the "Unsaved Changes" prompt.
Answers == { "Yes", "No", "Cancel" }

\* What the user has typed in the three widgets of the editor.
EditorTexts ==
    { [title |-> << >>, description |-> << >>, body |-> << LETTER >>],
      [title |-> << LETTER, LETTER >>, description |-> << QUOTE >>, body |-> << >>] }

\* What the file system does in one save, and what os.urandom gives.
HomeIo == { "ok", "write_fails" }

HomeDraw == [salt |-> Fill(_SALT_SIZE, 0), nonce |-> Fill(_NONCE_SIZE, 0)]

\* The file name of the i-th Log object.
FileName(i) == Fill(i + 1, LETTER)

\* ------------------------------------------------------------------- state
VARIABLES
    blob,       \* the buffer handed to decrypt / is_password_correct
    enc,        \* the encrypt call that produced blob (or the last one that raised)
    damage,     \* what happened to blob since encrypt returned it
    res,        \* the last decrypt / is_password_correct call on blob
    b64,        \* the encrypt_to_base64 call made and the text it returned
    bres,       \* the last decrypt_from_base64 call on that text
    log,        \* the Log entity: name, description, body, encrypted_payload
    store,      \* the global list `logs` and the file of the entity
    last,       \* the last call made on the entity
    hist,       \* the fields and the password of the last encryption,
                \* whether a payload was ever damaged, the damage of the
                \* current payload, and whether a save has failed
    home        \* the user interface: HomeScreen and the Log Editor

codecVars == << blob, enc, damage, res >>

b64Vars == << b64, bres >>

logVars == << log, store, last, hist >>

vars == << blob, enc, damage, res, b64, bres, log, store, last, hist, home >>

NoCall == [op |-> "none", password |-> << >>, out |-> Return(<< >>), trace |-> << >>]

NoEnc == [done |-> FALSE, password |-> << >>, plaintext |-> << >>,
          salt |-> << >>, nonce |-> << >>, out |-> Return(<< >>)]

Intact == [kind |-> "none", pos |-> 0]

CodecIdle ==
    /\ blob = << >>
    /\ enc = NoEnc
    /\ damage = [kind |-> "foreign", pos |-> 0]
    /\ res = NoCall

B64Idle ==
    /\ b64 = NoEnc
    /\ bres = NoCall

NoLogCall == [op |-> "none", password |-> << >>, io |-> "ok",
              out |-> Return(None), steps |-> << >>]

LogIdle ==
    /\ log = NoLog
    /\ store = [logs |-> FALSE, file |-> NoFile]
    /\ last = NoLogCall
    /\ hist = [orig |-> [description |-> << >>, body |-> << >>],
               password |-> << >>, pristine |-> TRUE, damage |-> "none",
               io_failed |-> FALSE]

NoHome == [objs |-> << >>, current_log |-> 0, active_log_editor |-> FALSE,
           editor |-> NoEditor, now |-> 0,
           last |-> [op |-> "none", dialog |-> NoDialog, trace |-> << >>]]

HomeIdle == home = NoHome

Init ==
    /\ blob = << >>
    /\ enc = NoEnc
    /\ damage = [kind |-> "foreign", pos |-> 0]
    /\ res = NoCall
    /\ B64Idle
    /\ LogIdle
    /\ HomeIdle

\* One encrypt call; the buffer under test becomes the blob it returned (it
\* stays the empty buffer when encrypt raised).
Encrypt(P, B, s, n) ==
    LET r == encrypt(P, B, s, n)
    IN  /\ ~ enc.done
        /\ enc' = [done |-> TRUE, password |-> P, plaintext |-> B,
                   salt |-> s, nonce |-> n, out |-> r]
        /\ IF r.kind = "return"
           THEN blob' = r.value /\ damage' = Intact
           ELSE UNCHANGED << blob, damage >>
        /\ res' = NoCall
        /\ UNCHANGED b64Vars
        /\ UNCHANGED logVars
        /\ UNCHANGED home

\* One byte of the stored blob is altered (position i, 1-based).
Alter(i, d) ==
    /\ damage = Intact
    /\ res.op = "none"
    /\ i \in 1 .. Len(blob)
    /\ blob' = [blob EXCEPT ![i] = (@ + d) % ByteMod]
    /\ damage' = [kind |-> "alter", pos |-> i]
    /\ UNCHANGED << enc, res >>
    /\ UNCHANGED b64Vars
    /\ UNCHANGED logVars
    /\ UNCHANGED home

\* The stored blob is cut to its first n bytes.
Truncate(n) ==
    /\ damage = Intact
    /\ res.op = "none"
    /\ n < Len(blob)
    /\ blob' = SubSeq(blob, 1, n)
    /\ damage' = [kind |-> "truncate", pos |-> n]
    /\ UNCHANGED << enc, res >>
    /\ UNCHANGED b64Vars
    /\ UNCHANGED logVars
    /\ UNCHANGED home

Decrypt(P) ==
    LET r == decrypt(P, blob)
    IN  /\ res.op = "none"
        /\ res' = [op |-> "decrypt", password |-> P, out |-> r.out, trace |-> r.trace]
        /\ UNCHANGED << blob, enc, damage >>
        /\ UNCHANGED b64Vars
        /\ UNCHANGED logVars
        /\ UNCHANGED home

IsPasswordCorrect(P) ==
    /\ res.op = "none"
    /\ res' = [op |-> "is_password_correct", password |-> P,
               out |-> is_password_correct(P, blob), trace |-> << >>]
    /\ UNCHANGED << blob, enc, damage >>
    /\ UNCHANGED b64Vars
    /\ UNCHANGED logVars
    /\ UNCHANGED home

Next ==
    \/ \E P \in Passwords, B \in Plaintexts, s \in Salts, n \in Nonces : Encrypt(P, B, s, n)
    \/ \E i \in 1 .. (MinBlobLen + MaxPlainLen), d \in 1 .. (ByteMod - 1) : Alter(i, d)
    \/ \E n \in 0 .. (MinBlobLen + MaxPlainLen) : Truncate(n)
    \/ \E P \in Passwords : Decrypt(P)
    \/ \E P \in Passwords : IsPasswordCorrect(P)

Spec == Init /\ [][Next]_vars

\* ------------------------------------------------- the base64 helpers alone
InitB64 == CodecIdle /\ B64Idle /\ LogIdle /\ HomeIdle

EncryptToBase64(P, B, s, n) ==
    /\ ~ b64.done
    /\ b64' = [done |-> TRUE, password |-> P, plaintext |-> B,
               salt |-> s, nonce |-> n, out |-> encrypt_to_base64(P, B, s, n)]
    /\ bres' = NoCall
    /\ UNCHANGED codecVars
    /\ UNCHANGED logVars
    /\ UNCHANGED home

\* The call is made on the text encrypt_to_base64 returned.
DecryptFromBase64(P) ==
    /\ b64.done /\ b64.out.kind = "return"
    /\ bres.op = "none"
    /\ bres' = [op |-> "decrypt_from_base64", password |-> P,
                out |-> decrypt_from_base64(P, b64.out.value), trace |-> << >>]
    /\ UNCHANGED << b64, codecVars >>
    /\ UNCHANGED logVars
    /\ UNCHANGED home

NextB64 ==
    \/ \E P \in Passwords, B \in Plaintexts, s \in Salts, n \in Nonces :
            EncryptToBase64(P, B, s, n)
    \/ \E P \in Passwords : DecryptFromBase64(P)

SpecB64 == InitB64 /\ [][NextB64]_vars

\* ---------------------------------------------------------- the Log entity
SaveCalled(steps) == \E i \in 1 .. Len(steps) : steps[i] = "save"

\* A Log just constructed: not encrypted, not yet in `logs`, no file.
InitLog ==
    /\ CodecIdle
    /\ B64Idle
    /\ \E f \in FieldPairs :
            /\ log = NewLog(LogName, f.description, f.body, LogPath)
            /\ hist = [orig |-> f, password |-> << >>, pristine |-> TRUE,
                       damage |-> "none", io_failed |-> FALSE]
    /\ store = [logs |-> FALSE, file |-> NoFile]
    /\ last = NoLogCall
    /\ HomeIdle

\* One call is made at a time: the next one starts when the last one has
\* come back to its caller.  io matters only to a call that reaches save,
\* and the file system fails at most once.
EncryptWithPassword(P, d, io) ==
    LET r == encrypt_with_password(log, store, P, d.salt, d.nonce, io)
    IN  /\ last.op = "none"
        /\ io = "ok" \/ ~ hist.io_failed
        /\ io = "ok" \/ SaveCalled(r.steps)
        /\ log' = r.log
        /\ store' = r.store
        /\ last' = [op |-> "encrypt_with_password", password |-> P, io |-> io,
                    out |-> r.out, steps |-> r.steps]
        /\ hist' = IF is_encrypted(r.log) /\ ~ is_encrypted(log)
                   THEN [hist EXCEPT !.orig = [description |-> log.description,
                                               body |-> log.body],
                                     !.password = P,
                                     !.damage = "none",
                                     !.io_failed = @ \/ io # "ok"]
                   ELSE hist
        /\ UNCHANGED << codecVars, b64Vars, home >>

DecryptWithPassword(P, io) ==
    LET r == decrypt_with_password(log, store, P, io)
    IN  /\ last.op = "none"
        /\ io = "ok" \/ ~ hist.io_failed
        /\ io = "ok" \/ SaveCalled(r.steps)
        /\ log' = r.log
        /\ store' = r.store
        /\ last' = [op |-> "decrypt_with_password", password |-> P, io |-> io,
                    out |-> r.out, steps |-> r.steps]
        /\ hist' = [hist EXCEPT !.io_failed = @ \/ io # "ok"]
        /\ UNCHANGED << codecVars, b64Vars, home >>

CanDecryptWithPassword(P) ==
    /\ last.op = "none"
    /\ last' = [op |-> "can_decrypt_with_password", password |-> P, io |-> "ok",
                out |-> can_decrypt_with_password(log, P), steps |-> << >>]
    /\ UNCHANGED << log, store, hist, codecVars, b64Vars, home >>

AlterByte(b, i) == [b EXCEPT ![i] = (@ + 1) % ByteMod]

\* The payload text after damage k; pw is the password it was made with.
Damaged(k, t, pw) ==
    LET raw == b64decode(t).value
        other(B) == encrypt_to_base64(pw, B, Fill(_SALT_SIZE, 0), Fill(_NONCE_SIZE, 0)).value
    IN  CASE k = "password_hmac" -> b64encode(AlterByte(raw, _SALT_SIZE + 1))
          [] k = "ciphertext" -> b64encode(AlterByte(raw, _SALT_SIZE + 32 + _NONCE_SIZE + 1))
          [] k = "short_blob" -> b64encode(SubSeq(raw, 1, MinBlobLen - 1))
          [] k = "cut_text" -> SubSeq(t, 1, Len(t) - 1)
          [] k = "non_ascii" -> Append(t, NON_ASCII)
          [] k = "newline" -> << OTHER_ASCII >> \o t
          [] k = "empty" -> << >>
          [] k = "number" -> other(<< LETTER >>)
          [] k = "not_json" -> other(<< QUOTE >>)
          [] k = "no_body" -> other(<< QUOTE, LETTER, QUOTE >>)

\* The stored payload of an encrypted entity is found changed (the record
\* was edited or damaged outside the three methods), once.
Corrupt(k) ==
    /\ last.op = "none"
    /\ is_encrypted(log)
    /\ hist.pristine
    /\ log' = [log EXCEPT !.encrypted_payload = Str(Damaged(k, @.text, hist.password))]
    /\ hist' = [hist EXCEPT !.pristine = FALSE, !.damage = k]
    /\ last' = [op |-> "corrupt", password |-> << >>, io |-> "ok",
                out |-> Return(None), steps |-> << >>]
    /\ UNCHANGED << store, codecVars, b64Vars, home >>

\* The call has come back: its outcome is with the caller.  After a crash
\* there is no process left to make a call.
CallReturns ==
    /\ last.op # "none"
    /\ last.out.kind # "crash"
    /\ last' = NoLogCall
    /\ UNCHANGED << log, store, hist, codecVars, b64Vars, home >>

NextLog ==
    \/ \E P \in Passwords, d \in Draws, io \in IoOutcomes : EncryptWithPassword(P, d, io)
    \/ \E P \in Passwords, io \in IoOutcomes : DecryptWithPassword(P, io)
    \/ \E P \in Passwords : CanDecryptWithPassword(P)
    \/ \E k \in Damages : Corrupt(k)
    \/ CallReturns

SpecLog == InitLog /\ [][NextLog]_vars

\* ------------------------------------------- the HomeScreen and its editor
\* The application has started: load_logs has read one plain log from its
\* file, the logs viewer has selected its first row, no editor is open.
InitHome ==
    /\ CodecIdle
    /\ B64Idle
    /\ LogIdle
    /\ LET loaded == NewLog(LogName, << QUOTE >>, << BACKSLASH, LETTER >>, FileName(1))
        IN  home = [NoHome EXCEPT
                        !.objs = << [log |-> loaded,
                                     store |-> [logs |-> TRUE,
                                                file |-> [state |-> "complete",
                                                          content |-> loaded]]] >>,
                        !.current_log = 1]

\* The file system fails in a save only while no file is half written.
IoHappens(io) ==
    io = "ok" \/ \A i \in 1 .. Len(home.objs) : home.objs[i].store.file.state # "partial"

\* The user clicks a row of the logs viewer.
SelectLog(i) ==
    /\ i \in Listed(home)
    /\ home' = Handled(_on_selected_log_changed(home, i),
                       "_on_selected_log_changed", NoDialog, << >>)
    /\ UNCHANGED << codecVars, b64Vars, logVars >>

NewLogClicked ==
    /\ Len(home.objs) < MaxLogs
    /\ home' = _new_log(home, FileName(Len(home.objs) + 1))
    /\ UNCHANGED << codecVars, b64Vars, logVars >>

EditLogClicked ==
    /\ home' = _edit_log(home)
    /\ UNCHANGED << codecVars, b64Vars, logVars >>

TypeInEditor(t) ==
    /\ home.editor.shown
    /\ home' = Handled(_mark_dirty(home, t), "_mark_dirty", NoDialog, << >>)
    /\ UNCHANGED << codecVars, b64Vars, logVars >>

\* add_revision is called MaxRevisions times at most.
SaveLogClicked(io, row0) ==
    LET after == save_log(home, home.now + 1, io, row0)
    IN  /\ home.editor.shown
        /\ IoHappens(io)
        /\ after.now <= MaxRevisions
        /\ home' = Handled(after, "save_log", NoDialog, << >>)
        /\ UNCHANGED << codecVars, b64Vars, logVars >>

AutoSaveTimer(io, row0) ==
    LET after == _auto_save_if_dirty(home, home.now + 1, io, row0)
    IN  /\ home.editor.shown
        /\ IoHappens(io)
        /\ after.now <= MaxRevisions
        /\ home' = Handled(after, "_auto_save_if_dirty", NoDialog, << >>)
        /\ UNCHANGED << codecVars, b64Vars, logVars >>

CloseEditor(answer, io, row0) ==
    LET after == closeEvent(home, answer, home.now + 1, io, row0)
    IN  /\ home.editor.shown
        /\ IoHappens(io)
        /\ after.now <= MaxRevisions
        /\ home' = Handled(after, "closeEvent", NoDialog, << >>)
        /\ UNCHANGED << codecVars, b64Vars, logVars >>

EncryptSelectedLog(dialog, confirm, d, io, row0) ==
    /\ IoHappens(io)
    /\ home' = _encrypt_selected_log(home, dialog, confirm, d, io, row0)
    /\ UNCHANGED << codecVars, b64Vars, logVars >>

DecryptSelectedLog(dialog, io, row0) ==
    /\ IoHappens(io)
    /\ home' = _decrypt_selected_log(home, dialog, io, row0)
    /\ UNCHANGED << codecVars, b64Vars, logVars >>

NextHome ==
    \/ \E i \in 1 .. MaxLogs : SelectLog(i)
    \/ NewLogClicked
    \/ EditLogClicked
    \/ \E t \in EditorTexts : TypeInEditor(t)
    \/ \E io \in HomeIo, row0 \in 0 .. MaxLogs : SaveLogClicked(io, row0)
    \/ \E io \in HomeIo, row0 \in 0 .. MaxLogs : AutoSaveTimer(io, row0)
    \/ \E answer \in Answers, io \in HomeIo, row0 \in 0 .. MaxLogs :
            CloseEditor(answer, io, row0)
    \/ \E dialog \in Dialogs, confirm \in Dialogs, io \in HomeIo, row0 \in 0 .. MaxLogs :
            EncryptSelectedLog(dialog, confirm, HomeDraw, io, row0)
    \/ \E dialog \in Dialogs, io \in HomeIo, row0 \in 0 .. MaxLogs :
            DecryptSelectedLog(dialog, io, row0)

SpecHome == InitHome /\ [][NextHome]_vars

\* ------------------------------------------------------------- properties
HEADER_SIZE == _SALT_SIZE + 32 + _NONCE_SIZE

IsTrue(o) == o.kind = "return" /\ o.value = TRUE

IsFalse(o) == o.kind = "return" /\ o.value = FALSE

Fails(o, m) == o.kind = "raise" /\ o.exc = "ValueError" /\ o.msg = m

Ran(step) == \E i \in 1 .. Len(res.trace) : res.trace[i] = step

LastStep == IF res.trace = << >> THEN "" ELSE res.trace[Len(res.trace)]

C2_WrongPasswordDetected ==
    (damage = Intact /\ res.password # enc.password)
        => /\ res.op = "is_password_correct" => IsFalse(res.out)
           /\ res.op = "decrypt" => Fails(res.out, WrongPassword)

\* C3: after one byte of the ciphertext region was altered, decrypt with
\* the encrypting password fails with the tampered-or-corrupt error.
C3_TamperDetected ==
    (res.op = "decrypt" /\ damage.kind = "alter" /\ damage.pos > HEADER_SIZE
        /\ res.password = enc.password)
        => Fails(res.out, TamperedOrCorrupt)

C3_Witness ==
    /\ res.op = "decrypt" /\ damage.kind = "alter" /\ damage.pos = HEADER_SIZE + 1
    /\ enc.plaintext # << >>
    /\ res.password = enc.password
    /\ Fails(res.out, TamperedOrCorrupt)

\* C4: on a buffer shorter than 76 bytes decrypt fails with the malformed
\* blob error and nothing but the length check has run.
C4_MalformedRejectedFirst ==
    (res.op = "decrypt" /\ Len(blob) < 76)
        => (Fails(res.out, MalformedBlob) /\ res.trace = << "length_check" >>)

C4_Witness ==
    /\ res.op = "decrypt" /\ damage.kind = "truncate" /\ Len(blob) = 75
    /\ res.password = enc.password
    /\ Fails(res.out, MalformedBlob)

\* C5: is_password_correct always returns a boolean, never raises, and
\* returns false on every buffer shorter than 76 bytes.
C5_GateTotal ==
    res.op = "is_password_correct"
        => /\ res.out.kind = "return"
           /\ Len(blob) < 76 => IsFalse(res.out)

\* C6 as stated: the gate is true exactly when decrypt does not fail with
\* the wrong-password error, on every buffer.
C6_GateIffNotWrongPassword ==
    res.op = "decrypt"
        => (IsTrue(is_password_correct(res.password, blob))
                <=> ~ Fails(res.out, WrongPassword))

\* C6 amended: the gate is true exactly when decrypt gets past its password
\* check (returns a plaintext or fails as tampered); on a buffer of at least
\* 76 bytes the gate is false exactly when decrypt fails with the
\* wrong-password error; on a shorter buffer the gate is false and decrypt
\* fails as malformed.
C6_GateAgreesWithDecrypt ==
    res.op = "decrypt"
        => LET g == is_password_correct(res.password, blob)
           IN  /\ IsTrue(g) <=> (res.out.kind = "return" \/ Fails(res.out, TamperedOrCorrupt))
               /\ Len(blob) >= 76 => (IsFalse(g) <=> Fails(res.out, WrongPassword))
               /\ Len(blob) < 76 => (IsFalse(g) /\ Fails(res.out, MalformedBlob))

C6_Witness ==
    /\ res.op = "decrypt"
    /\ IsTrue(is_password_correct(res.password, blob))
    /\ Fails(res.out, TamperedOrCorrupt)

\* C7: on every buffer of at least 76 bytes the password-check comparison
\* runs, it runs before the AEAD step, and a failed comparison means the
\* AEAD step did not run.
C7_CompareAlwaysBeforeAead ==
    (res.op = "decrypt" /\ Len(blob) >= 76)
        => /\ Ran("compare_digest")
           /\ \A i, j \in 1 .. Len(res.trace) :
                (res.trace[i] = "aead_decrypt" /\ res.trace[j] = "compare_digest") => j < i
           /\ Fails(res.out, WrongPassword) => ~ Ran("aead_decrypt")

\* C8: the error a decrypt call raises tells which check failed: the
\* malformed error exactly for a short buffer, the wrong-password error
\* exactly when the comparison was the last step, the tampered error exactly
\* when the AEAD step was the last step; the three errors are different.
C8_FailuresDistinguishable ==
    (res.op = "decrypt" /\ res.out.kind = "raise")
        => /\ Fails(res.out, MalformedBlob) <=> Len(blob) < 76
           /\ Fails(res.out, WrongPassword) <=> LastStep = "compare_digest"
           /\ Fails(res.out, TamperedOrCorrupt) <=> LastStep = "aead_decrypt"
           /\ Cardinality({MalformedBlob, WrongPassword, TamperedOrCorrupt}) = 3

C8_Witness ==
    /\ res.op = "decrypt" /\ damage = Intact
    /\ HmacKeyBlock(res.password) # HmacKeyBlock(enc.password)
    /\ Fails(res.out, WrongPassword)

\* C9: after any one byte of the blob was altered, decrypt with the
\* encrypting password does not fail with the wrong-password error.
C9_CorruptionNeverWrongPassword ==
    (res.op = "decrypt" /\ damage.kind = "alter" /\ res.password = enc.password)
        => ~ Fails(res.out, WrongPassword)

\* C10 as stated: the blob encrypt returns is 44 + 16 bytes longer than
\* the plaintext.
C10_LengthPlus44Plus16 ==
    (enc.done /\ enc.out.kind = "return")
        => Len(enc.out.value) = Len(enc.plaintext) + 44 + 16

\* C10 amended: the blob encrypt returns is 60 (header) + 16 (tag) bytes
\* longer than the plaintext.
C10_LengthPlus60Plus16 ==
    (enc.done /\ enc.out.kind = "return")
        => Len(enc.out.value) = Len(enc.plaintext) + 60 + 16

C10_Witness ==
    /\ enc.done /\ enc.out.kind = "return"
    /\ enc.plaintext # << >>
    /\ Len(blob) = Len(enc.plaintext) + 76
    /\ res.op = "none" /\ damage = Intact

SameOutcome(a, b) ==
    /\ a.kind = b.kind /\ a.exc = b.exc /\ a.msg = b.msg
    /\ a.kind = "return" => a.value = b.value

\* C11: a buffer of at least 76 bytes parses into the four fields at the
\* fixed offsets 0, 16, 48, 60, writing the parsed fields back gives the
\* buffer again, and the blob encrypt returned parses into the salt and
\* nonce it drew, the password check of its key and its AEAD output.
C11_LayoutRoundTrip ==
    Len(blob) >= 76
        => LET p == from_bytes(blob)
           IN  /\ p.kind = "return"
               /\ p.value.salt = SubSeq(blob, 1, 16)
               /\ p.value.password_hmac = SubSeq(blob, 17, 48)
               /\ p.value.nonce = SubSeq(blob, 49, 60)
               /\ p.value.ciphertext = SubSeq(blob, 61, Len(blob))
               /\ to_bytes(p.value) = blob
               /\ damage = Intact
                    => LET key == _derive_key(enc.password, enc.salt).value
                       IN  /\ p.value.salt = enc.salt
                           /\ p.value.nonce = enc.nonce
                           /\ p.value.password_hmac = password_check(key)
                           /\ p.value.ciphertext =
                                  aesgcm_encrypt(key, enc.nonce, enc.plaintext)

C11_Witness ==
    /\ damage.kind = "alter" /\ damage.pos = 1
    /\ Len(blob) > 76
    /\ to_bytes(from_bytes(blob).value) = blob
    /\ res.op = "none"

\* C12: on a buffer of at least 76 bytes that agrees with the blob encrypt
\* returned on bytes [0:48), is_password_correct gives the result it gives on
\* that blob, whatever the nonce and ciphertext bytes; the call leaves the
\* buffer and everything else unchanged.
C12_GateResult ==
    (res.op = "is_password_correct" /\ enc.done /\ enc.out.kind = "return"
        /\ Len(blob) >= 76
        /\ SubSeq(blob, 1, 48) = SubSeq(enc.out.value, 1, 48))
        => SameOutcome(res.out, is_password_correct(res.password, enc.out.value))

C12_GateFrame ==
    (res.op = "none" /\ res'.op = "is_password_correct")
        => UNCHANGED << blob, enc, damage >>

C12_GateIgnoresPayload == [] C12_GateResult /\ [][C12_GateFrame]_vars

C12_Witness ==
    /\ res.op = "is_password_correct"
    /\ damage.kind = "alter" /\ damage.pos > 48
    /\ IsTrue(res.out)

\* C13: the password check encrypt stored is the same for every plaintext
\* and every nonce under the same password and salt, it is the check of the
\* key derived from (password, salt), and the gate and decrypt recompute
\* exactly it.
C13_CheckDependsOnKeyOnly ==
    (enc.done /\ enc.out.kind = "return" /\ damage = Intact /\ res.op = "none")
        => /\ \A B \in Plaintexts, n \in Nonces :
                SubSeq(encrypt(enc.password, B, enc.salt, n).value, 17, 48)
                    = SubSeq(blob, 17, 48)
           /\ SubSeq(blob, 17, 48)
                = password_check(_derive_key(enc.password, enc.salt).value)
           /\ IsTrue(is_password_correct(enc.password, blob))
           /\ ~ Fails(decrypt(enc.password, blob).out, WrongPassword)

C13_Witness ==
    /\ enc.done /\ enc.out.kind = "return" /\ damage = Intact /\ res.op = "none"
    /\ enc.plaintext # << >>
    /\ enc.nonce # Fill(_NONCE_SIZE, 0)
    /\ SubSeq(blob, 17, 48) = SubSeq(encrypt(enc.password, << >>, enc.salt, Fill(_NONCE_SIZE, 0)).value, 17, 48)

\* C15: decrypt_from_base64 with the encrypting password on the text
\* encrypt_to_base64 returned gives back exactly the plaintext; the text is
\* made of characters of the standard alphabet in groups of four, padded
\* with '=' at the end only, and decodes to a blob decrypt accepts under
\* that password.
C15_Base64Inverse ==
    (b64.done /\ b64.out.kind = "return")
        => LET t == b64.out.value
               d == b64decode(t)
           IN  /\ Len(t) % 4 = 0
               /\ \A i \in 1 .. Len(t) :
                    \/ t[i] \in 0 .. 63
                    \/ t[i] = B64_PAD /\ i > Len(t) - 2
                         /\ \A j \in i .. Len(t) : t[j] = B64_PAD
               /\ d.kind = "return"
               /\ Len(d.value) = Len(b64.plaintext) + 76
               /\ 4 * ((Len(d.value) + 2) \div 3) = Len(t)
               /\ SameOutcome(decrypt(b64.password, d.value).out, Return(b64.plaintext))
               /\ (bres.op = "decrypt_from_base64" /\ bres.password = b64.password)
                    => SameOutcome(bres.out, Return(b64.plaintext))

C15_Witness ==
    /\ b64.done /\ b64.out.kind = "return"
    /\ b64.plaintext # << >>
    /\ bres.op = "decrypt_from_base64" /\ bres.password = b64.password
    /\ bres.out.kind = "return" /\ bres.out.value = b64.plaintext

\* A call of one of the two mutating methods of Log is being made.
Mutating(op) == op \in { "encrypt_with_password", "decrypt_with_password" }

\* C16: encrypt_with_password, with any password, on an entity that is
\* already encrypted returns and changes nothing: encrypted_payload,
\* description and body stay as they are, no step of the method runs (the
\* codec is not called, save is not called) and the stored state is the same.
C16_EncryptOnEncryptedIsNoOp ==
    [][ (last'.op = "encrypt_with_password" /\ is_encrypted(log))
            => /\ last'.out.kind = "return"
               /\ log' = log
               /\ last'.steps = << >>
               /\ store' = store ]_vars

C16_Witness ==
    /\ last.op = "encrypt_with_password"
    /\ last.steps = << >>
    /\ last.out.kind = "return"
    /\ is_encrypted(log)
    /\ hist.pristine
    /\ last.password # hist.password

\* C17: a decrypt_with_password call that fails before it persists (the
\* entity is not encrypted, the password is wrong, the payload text is not
\* decodable base64, the blob is malformed or tampered with, the decrypted
\* bytes are not a record) leaves description, body and encrypted_payload
\* exactly as they were, and save is not called.
C17_FailedDecryptChangesNothing ==
    [][ (last'.op = "decrypt_with_password" /\ last'.out.kind = "raise"
            /\ last'.out.exc # "OSError")
            => /\ log' = log
               /\ ~ SaveCalled(last'.steps)
               /\ store' = store ]_vars

C17_Witness ==
    /\ last.op = "decrypt_with_password"
    /\ last.password = hist.password
    /\ Fails(last.out, DecodeFailure)
    /\ is_encrypted(log)
    /\ log.description = placeholder /\ log.body = placeholder

\* C18: when save fails inside encrypt_with_password or
\* decrypt_with_password, the call fails and description, body and
\* encrypted_payload in memory are what they were before the call.
C18_SaveFailureChangesNothing ==
    [][ (Mutating(last'.op) /\ SaveCalled(last'.steps) /\ last'.io # "ok")
            => /\ last'.out.kind = "raise"
               /\ log' = log ]_vars

\* C19: from a plaintext entity, between calls of the three methods the
\* entity is in one of two states: encrypted_payload is None and
\* description and body hold the real texts, or encrypted_payload is set
\* and description and body are both the placeholder.
C19_TwoStates ==
    hist.pristine
        => \/ /\ log.encrypted_payload = None
              /\ log.description = hist.orig.description
              /\ log.body = hist.orig.body
           \/ /\ is_encrypted(log)
              /\ log.description = placeholder
              /\ log.body = placeholder

\* ... and a call changes the payload exactly when it changes the fields.
C19_ChangeTogether ==
    (hist.pristine /\ last'.op # "corrupt")
        => ((log'.encrypted_payload # log.encrypted_payload)
                <=> (<< log'.description, log'.body >> # << log.description, log.body >>))

C19_TwoStateInvariant == [] C19_TwoStates /\ [][C19_ChangeTogether]_vars

C19_Witness ==
    /\ hist.pristine
    /\ last.op = "decrypt_with_password"
    /\ Fails(last.out, IncorrectOrCorrupted)
    /\ is_encrypted(log)
    /\ log.description = placeholder /\ log.body = placeholder
    /\ hist.orig.description # << >>

\* C20: decrypt_with_password with the password of the encrypt_with_password
\* call that encrypted the entity puts description and body back to the
\* texts they had before that call and leaves encrypted_payload None.
C20_EntityRoundTrip ==
    [][ (last'.op = "decrypt_with_password" /\ hist.pristine /\ is_encrypted(log)
            /\ last'.password = hist.password)
            => /\ log'.description = hist.orig.description
               /\ log'.body = hist.orig.body
               /\ log'.encrypted_payload = None ]_vars

C20_Witness ==
    /\ last.op = "decrypt_with_password"
    /\ last.out.kind = "return"
    /\ hist.pristine
    /\ last.password = hist.password
    /\ log.encrypted_payload = None
    /\ log.description = << QUOTE >>
    /\ log.body = << BACKSLASH, LETTER >>

\* The fields of a Log other than description, body and encrypted_payload.
OtherFields(l) ==
    << l.name, l.path, l.tags, l.created_at, l.revised_at,
       l.revision_history, l.log_format_version >>

IsMethod(op) ==
    op \in { "encrypt_with_password", "decrypt_with_password",
             "can_decrypt_with_password" }

\* C21 (state part): the name of the entity, in memory and in every record
\* written to its file, is the name it was given, in every state.
C21_NameReadable ==
    /\ log.name = LogName
    /\ store.file.state # "absent" => store.file.content.name = LogName

\* C21 (step part): a call of one of the three methods, returning or
\* raising, leaves name, path, tags, the timestamps, the revision history
\* and the format version as they were.
C21_OtherFieldsKept ==
    IsMethod(last'.op) => OtherFields(log') = OtherFields(log)

\* C21: the name is never encrypted; the three methods change at most
\* description, body and encrypted_payload.
C21_NameNeverEncrypted == [] C21_NameReadable /\ [][C21_OtherFieldsKept]_vars

C21_Witness ==
    /\ last.op = "encrypt_with_password"
    /\ last.out.kind = "return"
    /\ is_encrypted(log)
    /\ log.description = placeholder
    /\ log.name = LogName
    /\ store.file.state = "complete"
    /\ store.file.content.name = LogName
    /\ is_encrypted(store.file.content)

\* C22 (step): a can_decrypt_with_password call returns a boolean, which is
\* False when the entity is not encrypted, and leaves the entity, the list
\* `logs` and the file as they were.
C22_GateStep ==
    last'.op = "can_decrypt_with_password"
        => /\ last'.out.kind = "return"
           /\ last'.out.value \in BOOLEAN
           /\ ~ is_encrypted(log) => last'.out.value = FALSE
           /\ log' = log
           /\ store' = store

\* C22: can_decrypt_with_password never raises, whatever payload is stored
\* and whatever the password, never mutates the entity and never persists.
C22_GateNeverRaisesNorMutates == [][C22_GateStep]_vars

C22_Witness ==
    /\ last.op = "can_decrypt_with_password"
    /\ last.out.kind = "return"
    /\ last.password = hist.password
    /\ is_encrypted(log)
    /\ \E i \in 1 .. Len(log.encrypted_payload.text) :
            log.encrypted_payload.text[i] = NON_ASCII

\* The shape of a record in one of the two states.
TwoStateRecord(l) ==
    \/ l.encrypted_payload = None
    \/ is_encrypted(l) /\ l.description = placeholder /\ l.body = placeholder

\* C23 (step): in a call of encrypt_with_password or decrypt_with_password
\* save is called at most once, as the last step and after the assignments;
\* the record it is given is the entity as the call leaves it, which is in
\* one of the two states, and it is what the file then holds; after an
\* encrypt_with_password call that returned from save the file holds the
\* payload and the placeholders, not description or body.
C23_SaveStep ==
    LET steps == last'.steps
    IN  (Mutating(last'.op) /\ SaveCalled(steps))
            => /\ Cardinality({ i \in 1 .. Len(steps) : steps[i] = "save" }) = 1
               /\ steps[Len(steps)] = "save"
               /\ steps[Len(steps) - 1] = "assign"
               /\ TwoStateRecord(log')
               /\ log' # log
               /\ store'.file # store.file => store'.file.content = log'
               /\ last'.out.kind = "return" =>
                     /\ store'.file = [state |-> "complete", content |-> log']
                     /\ last'.op = "encrypt_with_password" =>
                           /\ is_encrypted(store'.file.content)
                           /\ store'.file.content.description = placeholder
                           /\ store'.file.content.body = placeholder

\* C23: persistence comes after the in-memory mutation of the call.
C23_PersistAfterMutation == [][C23_SaveStep]_vars

C23_Witness ==
    /\ last.op = "encrypt_with_password"
    /\ last.out.kind = "return"
    /\ SaveCalled(last.steps)
    /\ hist.orig.description = << QUOTE >>
    /\ store.file = [state |-> "complete", content |-> log]
    /\ log.description = placeholder /\ log.body = placeholder

\* C24: when the process dies during encrypt_with_password or
\* decrypt_with_password, the file of the entity is the complete record of
\* before the call or the complete record of after it, never a part of one.
C24_CrashLeavesCompleteFile ==
    [][ (Mutating(last'.op) /\ last'.out.kind = "crash")
            => \/ store'.file = store.file
               \/ store'.file = [state |-> "complete", content |-> log'] ]_vars

\* The payload is the encryption, under the password of the entity, of a
\* text that is not the record.
NotARecord == hist.damage \in { "number", "not_json", "no_body" }

\* C25: when the codec decrypts the payload and the plaintext is not the
\* record (not JSON, a JSON value that is not a mapping, a mapping without
\* body), decrypt_with_password fails with "Failed to decode decrypted log
\* payload." and restores nothing; and that failure is raised only when the
\* codec's decrypt succeeded (the call went on to decode the plaintext).
C25_DecodeFailureStep ==
    (last'.op = "decrypt_with_password" /\ is_encrypted(log))
        => /\ (NotARecord /\ last'.steps # << "decrypt_from_base64" >>)
                => Fails(last'.out, DecodeFailure) /\ log' = log
           /\ Fails(last'.out, DecodeFailure)
                => /\ Len(last'.steps) = 2
                   /\ last'.steps[1] = "decrypt_from_base64"
                   /\ last'.steps[2] = "json_loads"

C25_NotARecordIsDecodeFailure == [][C25_DecodeFailureStep]_vars

\* C26: a decrypt_with_password call on an encrypted entity that fails in
\* the codec step (wrong or unencodable password, payload text that is not
\* ASCII or not decodable base64, blob shorter than the minimum, password
\* check or tag failure) raises ValueError("Incorrect password or corrupted
\* encrypted log data.") and nothing else.
C26_CodecFailureStep ==
    (last'.op = "decrypt_with_password" /\ is_encrypted(log)
        /\ last'.steps = << "decrypt_from_base64" >>)
        => Fails(last'.out, IncorrectOrCorrupted)

C26_CodecFailuresMapped == [][C26_CodecFailureStep]_vars

C26_Witness ==
    /\ last.op = "decrypt_with_password"
    /\ last.password = hist.password
    /\ hist.damage = "cut_text"
    /\ is_encrypted(log)
    /\ Fails(last.out, IncorrectOrCorrupted)

\* C28 (step): a decrypt_with_password call on an encrypted entity that
\* returns, or that changes the entity at all, is made with a password for
\* which can_decrypt_with_password is True on the entity as it was before
\* the call.  (So when the gate is False the call raises and the entity is
\* left as it was, encrypted.)
C28_GateSoundStep ==
    (last'.op = "decrypt_with_password" /\ is_encrypted(log)
        /\ (last'.out.kind # "raise" \/ log' # log))
        => IsTrue(can_decrypt_with_password(log, last'.password))

C28_EntityGateSound == [][C28_GateSoundStep]_vars

C28_Witness ==
    /\ last.op = "decrypt_with_password"
    /\ last.password = hist.password
    /\ hist.damage = "short_blob"
    /\ is_encrypted(log)
    /\ last.out.kind = "raise"
    /\ IsFalse(can_decrypt_with_password(log, last.password))

\* C29: while the entity is encrypted (by encrypt_with_password with the
\* password hist.password) description and body hold the placeholder, and
\* the only call that changes the entity is a decrypt_with_password call
\* with exactly that password: a call with any other password restores
\* nothing and does not clear encrypted_payload.
C29_Placeholders ==
    (hist.pristine /\ is_encrypted(log))
        => log.description = placeholder /\ log.body = placeholder

C29_OnlyThePassword ==
    (hist.pristine /\ is_encrypted(log) /\ IsMethod(last'.op) /\ log' # log)
        => /\ last'.op = "decrypt_with_password"
           /\ last'.password = hist.password

C29_Confidentiality == [] C29_Placeholders /\ [][C29_OnlyThePassword]_vars

\* C27: a step of HomeScreen._decrypt_selected_log calls
\* decrypt_with_password only after can_decrypt_with_password has returned
\* True for the same password on the same log; when the dialog is
\* cancelled, the password is empty or the gate returns False,
\* decrypt_with_password is not called and no Log object and no file
\* changes; and a log changes in the handler only if the gate holds for it.
GateRefused(t) ==
    \E j \in 1 .. Len(t) :
        t[j].call = "can_decrypt_with_password" /\ t[j].out # Return(TRUE)

DecryptCalled(t) == \E k \in 1 .. Len(t) : t[k].call = "decrypt_with_password"

C27_GateStep ==
    home'.last.op = "_decrypt_selected_log" =>
        LET t == home'.last.trace
            d == home'.last.dialog
        IN  /\ \A k \in 1 .. Len(t) :
                    t[k].call = "decrypt_with_password" =>
                        \E j \in 1 .. (k - 1) :
                            /\ t[j].call = "can_decrypt_with_password"
                            /\ t[j].log = t[k].log
                            /\ t[j].password = t[k].password
                            /\ t[j].out = Return(TRUE)
            /\ (~ d.ok \/ d.text = << >> \/ GateRefused(t)) =>
                    /\ ~ DecryptCalled(t)
                    /\ home'.objs = home.objs
            /\ home'.objs # home.objs =>
                    /\ home.current_log # 0
                    /\ can_decrypt_with_password(home.objs[home.current_log].log,
                                                 d.text) = Return(TRUE)

C27_GateBeforeDecrypt == [][C27_GateStep]_vars

\* The gate has returned True and decrypt_with_password has come back.
C27_Witness ==
    /\ home.last.op = "_decrypt_selected_log"
    /\ Len(home.last.trace) = 2
    /\ home.last.trace[1].out = Return(TRUE)
    /\ home.last.trace[2].out.kind = "return"
    /\ ~ is_encrypted(home.objs[home.last.trace[2].log].log)

\* C30: at no time is a Log Editor window shown on a log whose
\* is_encrypted() is true, and a shown window is the registered
\* active_log_editor; a step never opens the editor on an encrypted log; a
\* step of _encrypt_selected_log or _decrypt_selected_log taken while an
\* editor is open (active_log_editor is not None) calls nothing on a log and
\* changes no log; and an editor save (save_log, the auto-save, the save of
\* closeEvent) changes no field of an encrypted log.
C30_NoEditorOnEncrypted ==
    home.editor.shown =>
        /\ home.active_log_editor
        /\ ~ is_encrypted(home.objs[home.editor.log].log)

C30_Step ==
    /\ (~ home.editor.shown /\ home'.editor.shown) =>
            ~ is_encrypted(home'.objs[home'.editor.log].log)
    /\ ((home.active_log_editor \/ home.editor.shown)
            /\ home'.last.op \in { "_encrypt_selected_log", "_decrypt_selected_log" }) =>
            /\ home'.last.trace = << >>
            /\ home'.objs = home.objs
    /\ home'.last.op \in { "save_log", "_auto_save_if_dirty", "closeEvent" } =>
            \A i \in 1 .. Len(home.objs) :
                is_encrypted(home.objs[i].log) => home'.objs[i] = home.objs[i]

C30_NoEncryptedLogEdited == [] C30_NoEditorOnEncrypted /\ [][C30_Step]_vars

\* The editor is open while the selected log is encrypted, and the request
\* to decrypt it has been refused.
C30_Witness ==
    /\ home.editor.shown
    /\ home.current_log # 0
    /\ is_encrypted(home.objs[home.current_log].log)
    /\ home.last.op = "_decrypt_selected_log"

====
